---- MODULE Spec2Model ----
(***************************************************************************)
(* A model of bot.py: the news filter (fetch_news), the summarizer         *)
(* (naive_bullets), the translator (libre_translate, _split_text) and the  *)
(* notifier (main, tg_send_message, tg_send_photo).                        *)
(*                                                                         *)
(* Text is kept run-length encoded: a string is a sequence of runs         *)
(* [c |-> character, n |-> repetitions], adjacent runs having different    *)
(* characters, so that the program's real length constants (900, 30, 420)  *)
(* can be used with short sequences.                                       *)
(***************************************************************************)
EXTENDS Integers, Sequences, FiniteSets, TLC

VARIABLES
    \* build_cn_digest's call of naive_bullets
    base_text,          \* the text to summarize
    BULLETS_PER_ITEM,   \* configured number of bullets
    BULLET_MAX_CHARS,   \* configured character cap of a bullet
    bullets_src,        \* the bullets returned
    nb_pc               \* "call" before the call, "done" after it

nbVars == <<base_text, BULLETS_PER_ITEM, BULLET_MAX_CHARS, bullets_src, nb_pc>>

VARIABLES
    \* libre_translate
    text,                 \* the argument
    LIBRETRANSLATE_URLS,  \* the configured endpoints, in order
    chunks,               \* _split_text(text)
    ch,                   \* position in chunks of the chunk being translated
    url,                  \* position in LIBRETRANSLATE_URLS of the next endpoint
    translated,           \* translation of the current chunk, None without one
    out_chunks,           \* the outputs of the chunks done
    tried,                \* the endpoints posted to for the last chunk, with what came back
    all_failed,           \* every post so far ended in a retry status or an exception
    tr_ret,               \* the string returned
    tr_raised,            \* an exception left libre_translate
    tr_pc                 \* "call", "chunk" (for ch in chunks), "post" (for url in ...), "done"

trVars == <<text, LIBRETRANSLATE_URLS, chunks, ch, url, translated, out_chunks, tried,
            all_failed, tr_ret, tr_raised, tr_pc>>

VARIABLES
    \* fetch_news
    now,            \* datetime.now(timezone.utc) when fetch_news runs
    MAX_ITEMS,      \* configured number of items
    DAYS_LOOKBACK,  \* configured lookback, in days
    cutoff,         \* now - DAYS_LOOKBACK days
    company,        \* position in COMPANIES of the company whose feed is read
    all_items,      \* the items accepted so far
    seen_links,     \* the links of the items accepted so far
    log,            \* history: every entry read so far, with whether it was accepted
    items,          \* the list returned
    fn_pc           \* "call", "feeds" (the two loops), "done"

fnVars == <<now, MAX_ITEMS, DAYS_LOOKBACK, cutoff, company, all_items, seen_links, log,
            items, fn_pc>>

VARIABLES
    \* main
    token,      \* the BOT_TOKEN setting
    chat_id,    \* the CHAT_ID setting
    enriched,   \* build_cn_digest's second result: an entry per item
    idx,        \* position of the loop over items, then over enriched[:3]
    calls,      \* history: the requests sent after fetch_news, in order
    raised,     \* the exception that left main, "" without one
    m_pc        \* "start", "placeholder", "digest", "send", "photos", "done"

mainVars == <<token, chat_id, enriched, idx, calls, raised, m_pc>>

vars == <<nbVars, trVars, fnVars, mainVars>>

\* Python's None, where a string is expected: a run no string has
None == <<[c |-> "None", n |-> 0]>>

(***************************************************************************)
(* Bounds of the model.                                                    *)
(***************************************************************************)
\* longest bullet input text, in runs
MaxRuns == 4

\* longest translator input text, in runs
MaxTextRuns == 3

\* companies whose feed is read (COMPANIES has 21)
NumCompanies == 2

\* entries read in one run, all feeds together
MaxEntries == 2

\* items fetch_news hands to main
MaxMainItems == 4

(***************************************************************************)
(* Strings.                                                                *)
(***************************************************************************)
Run(c, n) == [c |-> c, n |-> n]

Max(a, b) == IF a >= b THEN a ELSE b

\* adjacent runs differ in their character
IsStr(s) == \A i \in 1..(Len(s) - 1) : s[i].c # s[i + 1].c

\* every string of at most maxRuns runs over the given characters and run lengths
Strings(chars, lens, maxRuns) ==
    { s \in UNION { [1..k -> [c : chars, n : lens]] : k \in 0..maxRuns } : IsStr(s) }

\* len(s)
RECURSIVE StrLen(_)
StrLen(s) == IF s = <<>> THEN 0 ELSE s[1].n + StrLen(Tail(s))

\* s + t
Cat(s, t) ==
    IF s = <<>> THEN t
    ELSE IF t = <<>> THEN s
    ELSE IF s[Len(s)].c = t[1].c
         THEN SubSeq(s, 1, Len(s) - 1)
                \o <<Run(t[1].c, s[Len(s)].n + t[1].n)>>
                \o Tail(t)
         ELSE s \o t

\* sep.join(parts)
RECURSIVE JoinWith(_, _)
JoinWith(sep, parts) ==
    IF parts = <<>> THEN <<>>
    ELSE IF Len(parts) = 1 THEN parts[1]
    ELSE Cat(Cat(parts[1], sep), JoinWith(sep, Tail(parts)))

\* the characters str.strip() and the regex class \s remove
IsSpace(c) == c \in {" ", "\n"}

RECURSIVE LStrip(_)
LStrip(s) ==
    IF s = <<>> THEN <<>>
    ELSE IF IsSpace(s[1].c) THEN LStrip(Tail(s))
    ELSE s

RECURSIVE RStrip(_)
RStrip(s) ==
    IF s = <<>> THEN <<>>
    ELSE IF IsSpace(s[Len(s)].c) THEN RStrip(SubSeq(s, 1, Len(s) - 1))
    ELSE s

\* s.strip()
Strip(s) == RStrip(LStrip(s))

\* the first k characters of s, k >= 0
RECURSIVE Prefix(_, _)
Prefix(s, k) ==
    IF s = <<>> \/ k <= 0 THEN <<>>
    ELSE IF s[1].n >= k THEN <<Run(s[1].c, k)>>
    ELSE <<s[1]>> \o Prefix(Tail(s), k - s[1].n)

\* s[:k], a negative k counting from the end as Python's slices do
Slice(s, k) ==
    IF k >= 0 THEN Prefix(s, k) ELSE Prefix(s, Max(StrLen(s) + k, 0))

(***************************************************************************)
(* The translator: _split_text and libre_translate.                        *)
(***************************************************************************)
\* chunk_size of libre_translate's call of _split_text
CHUNK_SIZE == 900

\* re.split(r"(\n+)", s) without its empty parts: the runs of newlines, and the
\* text between them
RECURSIVE SplitNewlines(_, _, _)
SplitNewlines(s, cur, parts) ==
    IF s = <<>> THEN (IF cur = <<>> THEN parts ELSE Append(parts, cur))
    ELSE IF s[1].c = "\n"
         THEN SplitNewlines(Tail(s), <<>>,
                            (IF cur = <<>> THEN parts ELSE Append(parts, cur)) \o <<<<s[1]>>>>)
    ELSE SplitNewlines(Tail(s), Cat(cur, <<s[1]>>), parts)

\* the loop of _split_text: buf is "".join(buf), n the length counted so far
RECURSIVE FillChunks(_, _, _, _, _)
FillChunks(parts, chunk_size, done, buf, n) ==
    IF parts = <<>> THEN (IF buf # <<>> THEN Append(done, Strip(buf)) ELSE done)
    ELSE LET part == parts[1] IN
         IF n + StrLen(part) > chunk_size /\ buf # <<>>
         THEN FillChunks(Tail(parts), chunk_size, Append(done, Strip(buf)), part, StrLen(part))
         ELSE FillChunks(Tail(parts), chunk_size, done, Cat(buf, part), n + StrLen(part))

_split_text(s, chunk_size) ==
    LET stripped == Strip(s) IN
    IF stripped = <<>> THEN <<>>
    ELSE FillChunks(SplitNewlines(stripped, <<>>, <<>>), chunk_size, <<>>, <<>>, 0)

\* a one-token string
Word(w) == <<Run(w, 1)>>

\* LIBRETRANSLATE_URLS for a value of the LIBRETRANSLATE_URL setting
ConfiguredUrls(env) ==
    SelectSeq(<<Strip(env), Word("https://libretranslate.de/translate"),
                Word("https://translate.astian.org/translate")>>,
              LAMBDA u : u # <<>>)

\* the statuses after which the next endpoint is tried without raising
RetryStatus == {429, 500, 502, 503, 504}

\* r.raise_for_status() raises
RaisesForStatus(status) == status >= 400 /\ status < 600

\* what an endpoint can answer: a transport exception, or a status with a body
\* that is no JSON object, has no translatedText, or has one
Responses ==
    [exception : {TRUE}, status : {0}, json : {FALSE}, translatedText : {None}]
      \cup [exception : {FALSE}, status : {404, 429, 500, 502, 503, 504}, json : {FALSE},
            translatedText : {None}]
      \cup [exception : {FALSE}, status : {200}, json : {FALSE}, translatedText : {None}]
      \cup [exception : {FALSE}, status : {200}, json : {TRUE},
            translatedText : {None, <<>>, Word(" "), <<Run("z", 1), Run(" ", 1)>>}]

\* how one pass of the loop over the endpoints ends for a response:
\* "retry" (the status is one of RetryStatus), "except" (an exception caught),
\* "empty" (parsed, translatedText blank), "text" (parsed, translatedText kept)
Outcome(r) ==
    IF r.exception THEN "except"
    ELSE IF r.status \in RetryStatus THEN "retry"
    ELSE IF RaisesForStatus(r.status) THEN "except"
    ELSE IF ~r.json THEN "except"
    ELSE IF r.translatedText = None THEN "empty"
    ELSE IF Strip(r.translatedText) = <<>> THEN "empty"
    ELSE "text"

\* a loop that stops at the first parsed response, its translatedText blank or not
TriesNext_until_parsed(outcome) == outcome \notin {"text", "empty"}

\* the loop over the endpoints goes on to the next one after this outcome
TriesNext(outcome) == outcome # "text"

\* except Exception: continue
Caught(outcome) == TRUE

TranslatorTexts == Strings({"a", " ", "\n"}, {1, CHUNK_SIZE}, MaxTextRuns)

IdleTranslate ==
    /\ text = <<>>
    /\ LIBRETRANSLATE_URLS = <<>>
    /\ chunks = <<>>
    /\ ch = 0
    /\ url = 0
    /\ translated = None
    /\ out_chunks = <<>>
    /\ tried = <<>>
    /\ all_failed = TRUE
    /\ tr_ret = None
    /\ tr_raised = FALSE
    /\ tr_pc = "idle"

InitTranslate ==
    /\ text \in TranslatorTexts
    /\ LIBRETRANSLATE_URLS \in { ConfiguredUrls(env) : env \in {<<>>, Word(" "), Word("https://own/translate")} }
    /\ chunks = <<>>
    /\ ch = 0
    /\ url = 0
    /\ translated = None
    /\ out_chunks = <<>>
    /\ tried = <<>>
    /\ all_failed = TRUE
    /\ tr_ret = None
    /\ tr_raised = FALSE
    /\ tr_pc = "call"

\* lines 138-143: strip, return "" for an empty text, split
tr_Begin ==
    /\ tr_pc = "call"
    /\ IF Strip(text) = <<>>
       THEN /\ tr_ret' = <<>>
            /\ tr_pc' = "done"
            /\ UNCHANGED <<chunks, ch>>
       ELSE /\ chunks' = _split_text(Strip(text), CHUNK_SIZE)
            /\ ch' = 1
            /\ tr_pc' = "chunk"
            /\ UNCHANGED tr_ret
    /\ UNCHANGED <<text, LIBRETRANSLATE_URLS, url, translated, out_chunks, tried,
                   all_failed, tr_raised>>
    /\ UNCHANGED <<nbVars, fnVars, mainVars>>

\* line 145-146 and 176: the next chunk, or the return after the last one
tr_NextChunk ==
    /\ tr_pc = "chunk"
    /\ IF ch > Len(chunks)
       THEN /\ tr_ret' = Strip(JoinWith(Word("\n"), out_chunks))
            /\ tr_pc' = "done"
            /\ UNCHANGED <<translated, url, tried>>
       ELSE /\ translated' = None
            /\ url' = 1
            /\ tried' = <<>>
            /\ tr_pc' = "post"
            /\ UNCHANGED tr_ret
    /\ UNCHANGED <<text, LIBRETRANSLATE_URLS, chunks, ch, out_chunks, all_failed, tr_raised>>
    /\ UNCHANGED <<nbVars, fnVars, mainVars>>

\* lines 148-174: one pass of the loop over the endpoints, which posts the chunk to
\* LIBRETRANSLATE_URLS[url] and gets r; after the last pass the chunk's output is
\* appended
tr_Post(r) ==
    /\ tr_pc = "post"
    /\ url <= Len(LIBRETRANSLATE_URLS)
    /\ LET outcome == Outcome(r)
           got == IF outcome \in {"empty", "text"}
                  THEN (IF r.translatedText = None THEN <<>> ELSE Strip(r.translatedText))
                  ELSE translated
           last == ~TriesNext(outcome) \/ url = Len(LIBRETRANSLATE_URLS)
       IN  /\ tried' = Append(tried, [url |-> LIBRETRANSLATE_URLS[url], outcome |-> outcome])
           /\ IF outcome = "except" /\ ~Caught(outcome)
              THEN /\ tr_raised' = TRUE
                   /\ tr_pc' = "done"
                   /\ UNCHANGED <<translated, url, out_chunks, ch, all_failed>>
              ELSE /\ translated' = got
                   /\ all_failed' = (all_failed /\ outcome \in {"retry", "except"})
                   /\ UNCHANGED tr_raised
                   /\ IF last
                      THEN /\ out_chunks' = Append(out_chunks,
                                  IF got # None /\ got # <<>> THEN got ELSE chunks[ch])
                           /\ ch' = ch + 1
                           /\ tr_pc' = "chunk"
                           /\ UNCHANGED url
                      ELSE /\ url' = url + 1
                           /\ UNCHANGED <<out_chunks, ch, tr_pc>>
    /\ UNCHANGED <<text, LIBRETRANSLATE_URLS, chunks, tr_ret>>
    /\ UNCHANGED <<nbVars, fnVars, mainVars>>

NextTranslate ==
    \/ tr_Begin
    \/ tr_NextChunk
    \/ \E r \in Responses : tr_Post(r)

(***************************************************************************)
(* The summarizer: naive_bullets.                                          *)
(***************************************************************************)
\* default of BULLET_MAX_CHARS
BULLET_MAX_CHARS_DEFAULT == 420

\* default of BULLETS_PER_ITEM
BULLETS_PER_ITEM_DEFAULT == 5

\* segments shorter than this are skipped
MinSegmentLen == 30

\* the sentence ends of the split pattern (the full-width ones written in ASCII)
SentenceEnd == {".", "!", "?", "fullwidth-stop", "fullwidth-!", "fullwidth-?"}

\* re.sub(r"\s+", " ", s)
RECURSIVE CollapseWs(_)
CollapseWs(s) ==
    IF s = <<>> THEN <<>>
    ELSE IF IsSpace(s[1].c) THEN <<Run(" ", 1)>> \o CollapseWs(LStrip(s))
    ELSE <<s[1]>> \o CollapseWs(Tail(s))

\* re.split(r"(?<=[\.\!\?...])\s+", s): cur is the segment being read
RECURSIVE SplitSentences(_, _, _)
SplitSentences(s, cur, parts) ==
    IF s = <<>> THEN Append(parts, cur)
    ELSE IF IsSpace(s[1].c) /\ cur # <<>> /\ cur[Len(cur)].c \in SentenceEnd
         THEN SplitSentences(LStrip(s), <<>>, Append(parts, cur))
    ELSE SplitSentences(Tail(s), Cat(cur, <<s[1]>>), parts)

\* a loop that keeps the segments whole
RECURSIVE CollectBullets_uncut(_, _, _, _)
CollectBullets_uncut(parts, max_bullets, cap, bullets) ==
    IF parts = <<>> THEN bullets
    ELSE LET p == Strip(parts[1]) IN
         IF StrLen(p) < MinSegmentLen
         THEN CollectBullets_uncut(Tail(parts), max_bullets, cap, bullets)
         ELSE LET more == Append(bullets, p) IN
              IF Len(more) >= max_bullets THEN more
              ELSE CollectBullets_uncut(Tail(parts), max_bullets, cap, more)

\* the loop over the segments
RECURSIVE CollectBullets(_, _, _, _)
CollectBullets(parts, max_bullets, cap, bullets) ==
    IF parts = <<>> THEN bullets
    ELSE LET p == Strip(parts[1]) IN
         IF StrLen(p) < MinSegmentLen
         THEN CollectBullets(Tail(parts), max_bullets, cap, bullets)
         ELSE LET more == Append(bullets, Slice(p, cap)) IN
              IF Len(more) >= max_bullets THEN more
              ELSE CollectBullets(Tail(parts), max_bullets, cap, more)

naive_bullets(txt, max_bullets, cap) ==
    LET t == CollapseWs(Strip(txt)) IN
    IF t = <<>> THEN <<>>
    ELSE LET bullets == CollectBullets(SplitSentences(t, <<>>, <<>>), max_bullets, cap, <<>>) IN
         IF bullets = <<>> THEN <<Slice(t, cap)>> ELSE bullets

\* the texts summarized: letters, sentence ends and blanks, in runs around the
\* segment minimum and the default cap
BulletTexts ==
    Strings({"a", ".", " "}, {1, MinSegmentLen, BULLET_MAX_CHARS_DEFAULT + 1}, MaxRuns)

\* values of the BULLET_MAX_CHARS setting
BulletCaps == {-1, 0, MinSegmentLen - 1, BULLET_MAX_CHARS_DEFAULT}

\* values of the BULLETS_PER_ITEM setting
BulletCounts == {0, 1, BULLETS_PER_ITEM_DEFAULT}

IdleBullets ==
    /\ base_text = <<>>
    /\ BULLETS_PER_ITEM = BULLETS_PER_ITEM_DEFAULT
    /\ BULLET_MAX_CHARS = BULLET_MAX_CHARS_DEFAULT
    /\ bullets_src = <<>>
    /\ nb_pc = "idle"

InitBullets ==
    /\ base_text \in BulletTexts
    /\ BULLETS_PER_ITEM \in BulletCounts
    /\ BULLET_MAX_CHARS \in BulletCaps
    /\ bullets_src = <<>>
    /\ nb_pc = "call"

\* bullets_src = naive_bullets(base_text, max_bullets=BULLETS_PER_ITEM)
Summarize ==
    /\ nb_pc = "call"
    /\ bullets_src' = naive_bullets(base_text, BULLETS_PER_ITEM, BULLET_MAX_CHARS)
    /\ nb_pc' = "done"
    /\ UNCHANGED <<base_text, BULLETS_PER_ITEM, BULLET_MAX_CHARS>>
    /\ UNCHANGED <<trVars, fnVars, mainVars>>

NextBullets == Summarize

(***************************************************************************)
(* The filter: parse_entry_time and fetch_news.                            *)
(***************************************************************************)
\* default of MAX_ITEMS
MAX_ITEMS_DEFAULT == 10

\* default of DAYS_LOOKBACK
DAYS_LOOKBACK_DEFAULT == 2

\* seconds of timedelta(days=1)
DAY == 86400

\* a datetime: seconds and microseconds; Python's None is NoDatetime
Datetime(sec, usec) == [known |-> TRUE, sec |-> sec, usec |-> usec]

NoDatetime == [known |-> FALSE, sec |-> 0, usec |-> 0]

\* a < b of two datetimes
Before(a, b) == a.sec < b.sec \/ (a.sec = b.sec /\ a.usec < b.usec)

\* a feed entry's published_parsed or updated_parsed: absent (None), a time
\* tuple datetime() rejects (a leap second, say), or a time tuple of a second
NoTm == [kind |-> "none", sec |-> 0]

BadTm == [kind |-> "bad", sec |-> 0]

Tm(sec) == [kind |-> "tm", sec |-> sec]

parse_entry_time(entry) ==
    LET tm == IF entry.published_parsed # NoTm THEN entry.published_parsed
              ELSE entry.updated_parsed
    IN  IF tm = NoTm THEN NoDatetime
        ELSE IF tm.kind = "bad" THEN NoDatetime
        ELSE Datetime(tm.sec, 0)

\* published.isoformat(): fields of fixed width, the most significant first
\* (the date as a count of days, then hours, minutes, seconds)
isoformat(dt) ==
    <<dt.sec \div DAY, (dt.sec % DAY) \div 3600, (dt.sec % 3600) \div 60, dt.sec % 60>>

\* a < b of two strings of fields: the first difference decides, a prefix is less
RECURSIVE KeyLess(_, _)
KeyLess(a, b) ==
    IF b = <<>> THEN FALSE
    ELSE IF a = <<>> THEN TRUE
    ELSE IF a[1] # b[1] THEN a[1] < b[1]
    ELSE KeyLess(Tail(a), Tail(b))

\* key=lambda x: x.get("published") or ""
SortKey(item) == item.published

\* a sort without reverse=True
RECURSIVE InsertAscending(_, _)
InsertAscending(sorted, item) ==
    IF sorted = <<>> THEN <<item>>
    ELSE IF KeyLess(SortKey(item), SortKey(sorted[1])) THEN <<item>> \o sorted
    ELSE <<sorted[1]>> \o InsertAscending(Tail(sorted), item)

\* where a stable descending sort puts an item among those already sorted
RECURSIVE InsertDesc(_, _)
InsertDesc(sorted, item) ==
    IF sorted = <<>> THEN <<item>>
    ELSE IF KeyLess(SortKey(sorted[1]), SortKey(item)) THEN <<item>> \o sorted
    ELSE <<sorted[1]>> \o InsertDesc(Tail(sorted), item)

\* list.sort(key=..., reverse=True)
RECURSIVE SortDesc(_, _)
SortDesc(list, sorted) ==
    IF list = <<>> THEN sorted
    ELSE SortDesc(Tail(list), InsertDesc(sorted, list[1]))

\* list[:k]
Truncate(list, k) ==
    IF k >= 0 THEN SubSeq(list, 1, IF k < Len(list) THEN k ELSE Len(list))
    ELSE SubSeq(list, 1, Max(Len(list) + k, 0))

\* cutoff = datetime.now(timezone.utc) - timedelta(days=DAYS_LOOKBACK)
Cutoff(t, days) == Datetime(t.sec - days * DAY, t.usec)

\* the entry is skipped for its title or link: not title or not link or link in seen_links
Skipped(title, link, seen) == title = <<>> \/ link = <<>> \/ link \in seen

\* an age test that also drops the entry published at the cutoff
TooOld_inclusive(published, c) == published # NoDatetime /\ ~Before(c, published)

\* the entry is skipped for its age: published and published < cutoff
TooOld(published, c) == published # NoDatetime /\ Before(published, c)

\* a filter that never records a link
Seen_never_records(seen, link, accepted) == seen

\* a filter that records the link of every entry read, accepted or not
Seen_records_rejected(seen, link, accepted) == seen \cup {link}

\* seen_links after an entry with this link: the link is added at the end of the
\* pass, which an entry skipped or too old does not reach
Seen(seen, link, accepted) == IF accepted THEN seen \cup {link} ELSE seen

\* the seconds a feed's timestamps are drawn from: around the lookback
LookbackValues == {1, DAYS_LOOKBACK_DEFAULT}

EntrySeconds == { now.sec - DAYS_LOOKBACK * DAY + k : k \in {-1, 0, 1} }

\* the entries a feed can hold
Entries ==
    [ title : {Word(" "), <<Run("T", 1), Run(" ", 1)>>},
      link : {<<>>, Word("a"), <<Run(" ", 1), Run("a", 1)>>, Word("b")},
      published_parsed : {NoTm, BadTm} \cup { Tm(t) : t \in EntrySeconds },
      updated_parsed : {NoTm, Tm(now.sec - DAYS_LOOKBACK * DAY + 1)} ]

IdleFetch ==
    /\ now = Datetime(0, 0)
    /\ MAX_ITEMS = MAX_ITEMS_DEFAULT
    /\ DAYS_LOOKBACK = DAYS_LOOKBACK_DEFAULT
    /\ cutoff = NoDatetime
    /\ company = 0
    /\ all_items = <<>>
    /\ seen_links = {}
    /\ log = <<>>
    /\ items = <<>>
    /\ fn_pc = "idle"

InitFetch ==
    /\ now \in { Datetime(10 * DAY, usec) : usec \in {0, 500000} }
    /\ MAX_ITEMS \in {-1, 1, MAX_ITEMS_DEFAULT}
    /\ DAYS_LOOKBACK \in LookbackValues
    /\ cutoff = NoDatetime
    /\ company = 0
    /\ all_items = <<>>
    /\ seen_links = {}
    /\ log = <<>>
    /\ items = <<>>
    /\ fn_pc = "call"

\* lines 255-259: the cutoff, the empty result, the first company
fn_Begin ==
    /\ fn_pc = "call"
    /\ cutoff' = Cutoff(now, DAYS_LOOKBACK)
    /\ all_items' = <<>>
    /\ seen_links' = {}
    /\ company' = 1
    /\ fn_pc' = "feeds"
    /\ UNCHANGED <<now, MAX_ITEMS, DAYS_LOOKBACK, log, items>>
    /\ UNCHANGED <<nbVars, trVars, mainVars>>

\* lines 265-291: one pass of the loop over feed.entries, for the entry e
fn_Entry(e) ==
    /\ fn_pc = "feeds"
    /\ Len(log) < MaxEntries
    /\ LET title == Strip(e.title)
           link == Strip(e.link)
           published == parse_entry_time(e)
           accepted == ~Skipped(title, link, seen_links) /\ ~TooOld(published, cutoff)
       IN  /\ all_items' =
                 IF accepted
                 THEN Append(all_items,
                          [company |-> company, title |-> title, link |-> link,
                           published |-> IF published # NoDatetime
                                         THEN isoformat(published) ELSE <<>>])
                 ELSE all_items
           /\ seen_links' = Seen(seen_links, link, accepted)
           /\ log' = Append(log, [title |-> title, link |-> link, published |-> published,
                                  accepted |-> accepted])
    /\ UNCHANGED <<now, MAX_ITEMS, DAYS_LOOKBACK, cutoff, company, items, fn_pc>>
    /\ UNCHANGED <<nbVars, trVars, mainVars>>

\* line 259: the feed has no more entries, the next company's is read
fn_NextCompany ==
    /\ fn_pc = "feeds"
    /\ company < NumCompanies
    /\ company' = company + 1
    /\ UNCHANGED <<now, MAX_ITEMS, DAYS_LOOKBACK, cutoff, all_items, seen_links, log, items,
                   fn_pc>>
    /\ UNCHANGED <<nbVars, trVars, mainVars>>

\* lines 293-294: after the last company's feed, sort and cut
fn_Return ==
    /\ fn_pc = "feeds"
    /\ company = NumCompanies
    /\ all_items' = SortDesc(all_items, <<>>)
    /\ items' = Truncate(all_items', MAX_ITEMS)
    /\ fn_pc' = "done"
    /\ UNCHANGED <<now, MAX_ITEMS, DAYS_LOOKBACK, cutoff, company, seen_links, log>>
    /\ UNCHANGED <<nbVars, trVars, mainVars>>

NextFetch ==
    \/ fn_Begin
    \/ \E e \in Entries : fn_Entry(e)
    \/ fn_NextCompany
    \/ fn_Return

(***************************************************************************)
(* The run: main, build_cn_digest, tg_send_message, try_get_og_image and   *)
(* tg_send_photo.                                                          *)
(***************************************************************************)
\* items of the digest that get a photo: enriched[:3]
PHOTO_ITEMS == 3

\* what the chat API, or an article's page, can answer: a transport exception, or
\* a status
HttpResponses ==
    [exception : {TRUE}, status : {0}] \cup [exception : {FALSE}, status : {200, 404, 500}]

\* a tg_send_message without raise_for_status
MessageRaises_ignores_status(r) == r.exception

\* tg_send_message raises: the post does, or r.raise_for_status() does
MessageRaises(r) == r.exception \/ RaisesForStatus(r.status)

\* tg_send_photo raises: the post does; the status is only returned
PhotoRaises(r) == r.exception

\* what a page can hold: no image tag, one whose content is no http URL, or an image
Pages == {"no image", "relative image", "image"}

\* try_get_og_image: the image's URL, None after any exception and without a tag
\* whose content starts with "http"
try_get_og_image(r, page) ==
    IF r.exception \/ RaisesForStatus(r.status) THEN None
    ELSE IF page = "image" THEN Word("http://image")
    ELSE None

\* a main that goes on to the digest after the placeholder
AfterPlaceholder_falls_through == "digest"

\* line 352: main returns after the placeholder
AfterPlaceholder == "done"

\* the lists fetch_news can return: items with different links
NewsItems(n) ==
    [ i \in 1..n |-> [company |-> 1, title |-> Word("T"), link |-> Word(<<"link", i>>),
                      published |-> <<>>] ]

IdleMain ==
    /\ token = <<>>
    /\ chat_id = <<>>
    /\ enriched = <<>>
    /\ idx = 0
    /\ calls = <<>>
    /\ raised = ""
    /\ m_pc = "idle"

\* fetch_news as main sees it: returned, with some list
FetchReturned ==
    /\ now = Datetime(0, 0)
    /\ MAX_ITEMS = MAX_ITEMS_DEFAULT
    /\ DAYS_LOOKBACK = DAYS_LOOKBACK_DEFAULT
    /\ cutoff = Cutoff(now, DAYS_LOOKBACK)
    /\ company = NumCompanies
    /\ all_items = <<>>
    /\ seen_links = {}
    /\ log = <<>>
    /\ items \in { NewsItems(n) : n \in 0..MaxMainItems }
    /\ fn_pc = "done"

InitMain ==
    /\ token \in {<<>>, Word(" "), Word("token")}
    /\ chat_id \in {<<>>, Word("chat")}
    /\ enriched = <<>>
    /\ idx = 0
    /\ calls = <<>>
    /\ raised = ""
    /\ m_pc = "start"

\* lines 344-350: the settings, and fetch_news's result
m_Start ==
    /\ m_pc = "start"
    /\ IF Strip(token) = <<>> \/ Strip(chat_id) = <<>>
       THEN /\ raised' = "RuntimeError"
            /\ m_pc' = "done"
       ELSE /\ m_pc' = IF items = <<>> THEN "placeholder" ELSE "digest"
            /\ UNCHANGED raised
    /\ idx' = 1
    /\ UNCHANGED <<token, chat_id, enriched, calls>>
    /\ UNCHANGED <<nbVars, trVars, fnVars>>

\* lines 351-352: the placeholder message, answered by r
m_Placeholder(r) ==
    /\ m_pc = "placeholder"
    /\ calls' = Append(calls, [kind |-> "sendMessage", what |-> "placeholder", r |-> r])
    /\ IF MessageRaises(r)
       THEN /\ raised' = "RequestException"
            /\ m_pc' = "done"
       ELSE /\ m_pc' = AfterPlaceholder
            /\ UNCHANGED raised
    /\ UNCHANGED <<token, chat_id, enriched, idx>>
    /\ UNCHANGED <<nbVars, trVars, fnVars>>

\* lines 305-336: one pass of build_cn_digest's loop: the article is fetched, the
\* title and the bullets are sent for translation (to one endpoint at least, the
\* title not being empty), and title_cn is the translation or the title
m_Enrich(title_cn) ==
    /\ m_pc = "digest"
    /\ idx <= Len(items)
    /\ calls' = calls \o << [kind |-> "article", what |-> items[idx].link,
                            r |-> [exception |-> FALSE, status |-> 0]],
                           [kind |-> "translate", what |-> items[idx].link,
                            r |-> [exception |-> FALSE, status |-> 0]] >>
    /\ enriched' = Append(enriched, [title_cn |-> title_cn, link |-> items[idx].link])
    /\ idx' = idx + 1
    /\ UNCHANGED <<token, chat_id, raised, m_pc>>
    /\ UNCHANGED <<nbVars, trVars, fnVars>>

\* lines 338-340 and 354: build_cn_digest returns
m_DigestBuilt ==
    /\ m_pc = "digest"
    /\ idx > Len(items)
    /\ m_pc' = "send"
    /\ UNCHANGED <<token, chat_id, enriched, idx, calls, raised>>
    /\ UNCHANGED <<nbVars, trVars, fnVars>>

\* line 355: the digest message, answered by r
m_SendDigest(r) ==
    /\ m_pc = "send"
    /\ calls' = Append(calls, [kind |-> "sendMessage", what |-> "digest", r |-> r])
    /\ IF MessageRaises(r)
       THEN /\ raised' = "RequestException"
            /\ m_pc' = "done"
            /\ UNCHANGED idx
       ELSE /\ m_pc' = "photos"
            /\ idx' = 1
            /\ UNCHANGED raised
    /\ UNCHANGED <<token, chat_id, enriched>>
    /\ UNCHANGED <<nbVars, trVars, fnVars>>

\* lines 358-363: one pass of the loop over enriched[:3]: the page is requested
\* (answered by r, holding page) and, with an image, the photo is sent (answered by rp)
m_Photo(r, page, rp) ==
    /\ m_pc = "photos"
    /\ idx <= Len(Truncate(enriched, PHOTO_ITEMS))
    /\ LET it == enriched[idx]
           img == try_get_og_image(r, page)
           scrape == [kind |-> "scrape", what |-> it.link, r |-> r]
       IN  IF img = None
           THEN /\ calls' = Append(calls, scrape)
                /\ idx' = idx + 1
                /\ UNCHANGED <<raised, m_pc>>
           ELSE /\ calls' = calls \o <<scrape, [kind |-> "sendPhoto", what |-> it.link, r |-> rp]>>
                /\ IF PhotoRaises(rp)
                   THEN /\ raised' = "RequestException"
                        /\ m_pc' = "done"
                        /\ UNCHANGED idx
                   ELSE /\ idx' = idx + 1
                        /\ UNCHANGED <<raised, m_pc>>
    /\ UNCHANGED <<token, chat_id, enriched>>
    /\ UNCHANGED <<nbVars, trVars, fnVars>>

\* after the last photo main returns
m_Return ==
    /\ m_pc = "photos"
    /\ idx > Len(Truncate(enriched, PHOTO_ITEMS))
    /\ m_pc' = "done"
    /\ UNCHANGED <<token, chat_id, enriched, idx, calls, raised>>
    /\ UNCHANGED <<nbVars, trVars, fnVars>>

NextMain ==
    \/ m_Start
    \/ \E r \in HttpResponses : m_Placeholder(r)
    \/ \E title_cn \in {Word("T"), Word("z")} : m_Enrich(title_cn)
    \/ m_DigestBuilt
    \/ \E r \in HttpResponses : m_SendDigest(r)
    \/ \E r \in HttpResponses, page \in Pages, rp \in HttpResponses : m_Photo(r, page, rp)
    \/ m_Return

(***************************************************************************)
(* The specifications: one per part of the program, the other parts idle.  *)
(***************************************************************************)
InitSpecBullets == InitBullets /\ IdleTranslate /\ IdleFetch /\ IdleMain

SpecBullets == InitSpecBullets /\ [][NextBullets]_vars

InitSpecTranslate == InitTranslate /\ IdleBullets /\ IdleFetch /\ IdleMain

SpecTranslate == InitSpecTranslate /\ [][NextTranslate]_vars

InitSpecFetch == InitFetch /\ IdleBullets /\ IdleTranslate /\ IdleMain

SpecFetch == InitSpecFetch /\ [][NextFetch]_vars

InitSpecMain == InitMain /\ FetchReturned /\ IdleBullets /\ IdleTranslate

SpecMain == InitSpecMain /\ [][NextMain]_vars

(***************************************************************************)
(* The claims.                                                             *)
(***************************************************************************)
\* C5 as claimed: no bullet is longer than the cap, whatever the cap (a negative
\* cap read as allowing empty bullets only), and every non-empty text, blank ones
\* included, gives at least one bullet
C5_AsClaimed ==
    nb_pc = "done" =>
        /\ \A i \in 1..Len(bullets_src) :
              StrLen(bullets_src[i]) <= Max(BULLET_MAX_CHARS, 0)
        /\ (base_text # <<>> => Len(bullets_src) >= 1)

\* C5 amended: with a cap of at least 0 no bullet is longer than the cap, and a
\* text that is not empty once stripped gives at least one bullet, while a text
\* that is empty or blank gives none
C5_BulletsBounded ==
    nb_pc = "done" =>
        /\ BULLET_MAX_CHARS >= 0 =>
              \A i \in 1..Len(bullets_src) : StrLen(bullets_src[i]) <= BULLET_MAX_CHARS
        /\ (Strip(base_text) # <<>> => Len(bullets_src) >= 1)
        /\ (Strip(base_text) = <<>> => Len(bullets_src) = 0)

\* a text longer than the default cap has been summarized into a bullet cut at the cap
C5_Witness ==
    /\ nb_pc = "done"
    /\ BULLET_MAX_CHARS = BULLET_MAX_CHARS_DEFAULT
    /\ StrLen(Strip(base_text)) > BULLET_MAX_CHARS
    /\ Len(bullets_src) >= 1
    /\ \E i \in 1..Len(bullets_src) : StrLen(bullets_src[i]) = BULLET_MAX_CHARS

\* the cutoff of a run, from its clock and its lookback
RunCutoff == Datetime(now.sec - DAYS_LOOKBACK * DAY, now.usec)

\* entry i of the log has a title and a link, and no entry before it with its link
\* was accepted
Acceptable(i) ==
    /\ log[i].title # <<>>
    /\ log[i].link # <<>>
    /\ \A j \in 1..(i - 1) : log[j].accepted => log[j].link # log[i].link

\* entry i of the log is the first one read with its link, among those with a title
FirstSeen(i) ==
    /\ log[i].title # <<>>
    /\ log[i].link # <<>>
    /\ \A j \in 1..(i - 1) : log[j].title # <<>> => log[j].link # log[i].link

\* the timestamp of the entry a returned item was made from
TimeOf(item) ==
    log[CHOOSE i \in 1..Len(log) : log[i].accepted /\ log[i].link = item.link].published

\* C1: the accepted items, and the list fetch_news returns, never hold two items
\* with the same link, and never an item with an empty link
C1_UniqueLinks ==
    /\ \A i, j \in 1..Len(all_items) : i # j => all_items[i].link # all_items[j].link
    /\ \A i, j \in 1..Len(items) : i # j => items[i].link # items[j].link
    /\ \A i \in 1..Len(items) : items[i].link # <<>>

\* fetch_news has returned after reading two fresh entries with the same link
C1_Witness ==
    /\ fn_pc = "done"
    /\ Len(items) = 1
    /\ \E i, j \in 1..Len(log) :
          /\ i < j
          /\ log[i].link = log[j].link
          /\ log[i].accepted
          /\ log[j].title # <<>>
          /\ ~TooOld(log[j].published, RunCutoff)

\* C2 as claimed: an entry with a timestamp earlier than the cutoff, or equal to
\* it, is excluded; one a second after the cutoff, and otherwise acceptable, is
\* included
C2_AsClaimed ==
    \A i \in 1..Len(log) :
        log[i].published # NoDatetime =>
            /\ Before(log[i].published, RunCutoff) => ~log[i].accepted
            /\ log[i].published = RunCutoff => ~log[i].accepted
            /\ (log[i].published = Datetime(RunCutoff.sec + 1, RunCutoff.usec) /\ Acceptable(i))
                  => log[i].accepted

\* C2 amended: an entry with a timestamp earlier than the cutoff is excluded; an
\* entry whose timestamp is the cutoff or later (a second later, say), and which
\* is otherwise acceptable, is included
C2_CutoffStrict ==
    \A i \in 1..Len(log) :
        log[i].published # NoDatetime =>
            /\ Before(log[i].published, RunCutoff) => ~log[i].accepted
            /\ (~Before(log[i].published, RunCutoff) /\ Acceptable(i)) => log[i].accepted

\* an entry a second before the cutoff was read and dropped, then one at the cutoff
\* and accepted
C2_Witness ==
    /\ Len(log) = 2
    /\ log[1].published = Datetime(RunCutoff.sec - 1, RunCutoff.usec) /\ ~log[1].accepted
    /\ log[2].published = RunCutoff /\ log[2].accepted

\* the returned list is ordered by timestamp, the newest first, the items without
\* one last
OrderedNewestFirst ==
    \A i, j \in 1..Len(items) :
        i < j =>
            /\ TimeOf(items[i]) = NoDatetime => TimeOf(items[j]) = NoDatetime
            /\ (TimeOf(items[i]) # NoDatetime /\ TimeOf(items[j]) # NoDatetime)
                  => ~Before(TimeOf(items[i]), TimeOf(items[j]))

\* C3 as claimed: whatever MAX_ITEMS is, the returned list has at most MAX_ITEMS
\* items (none, with MAX_ITEMS negative) and is ordered
C3_AsClaimed ==
    fn_pc = "done" => (Len(items) <= Max(MAX_ITEMS, 0) /\ OrderedNewestFirst)

\* C3 amended: with MAX_ITEMS at least 0 the returned list has at most MAX_ITEMS
\* items (with MAX_ITEMS negative, it is the accepted items less the last
\* -MAX_ITEMS of them), and in both cases it is ordered
C3_BoundedAndOrdered ==
    fn_pc = "done" =>
        /\ MAX_ITEMS >= 0 => Len(items) <= MAX_ITEMS
        /\ MAX_ITEMS < 0 => Len(items) = Max(Len(all_items) + MAX_ITEMS, 0)
        /\ OrderedNewestFirst

\* two entries were accepted, the first without a timestamp and the second with
\* one, and the list was cut to the second
C3_Witness ==
    /\ fn_pc = "done"
    /\ MAX_ITEMS = 1
    /\ Len(log) >= 2
    /\ log[1].accepted /\ log[1].published = NoDatetime
    /\ log[2].accepted /\ log[2].published # NoDatetime
    /\ Len(items) = 1
    /\ items[1].link = log[2].link

\* C6 as claimed: of two entries with the same link, one with a timestamp and one
\* without, the first seen is accepted and the second dropped, whatever the timestamp
C6_AsClaimed ==
    \A i, j \in 1..Len(log) :
        ( /\ i < j
          /\ FirstSeen(i)
          /\ log[j].title # <<>>
          /\ log[j].link = log[i].link
          /\ (log[i].published = NoDatetime) # (log[j].published = NoDatetime) )
        => (log[i].accepted /\ ~log[j].accepted)

\* C6 amended: the first entry seen with a link is accepted unless its timestamp
\* is older than the cutoff; once an entry is accepted every later entry with its
\* link is dropped, with or without a timestamp; after a first entry older than
\* the cutoff, which is dropped, the next entry with its link is accepted if it
\* has no timestamp
C6_FirstAcceptedWins ==
    \A i, j \in 1..Len(log) :
        ( /\ i < j
          /\ log[i].title # <<>>
          /\ log[j].title # <<>>
          /\ log[i].link # <<>>
          /\ log[j].link = log[i].link )
        => /\ log[i].accepted => ~log[j].accepted
           /\ FirstSeen(i) => (log[i].accepted <=> ~TooOld(log[i].published, RunCutoff))
           /\ ( /\ FirstSeen(i)
                /\ ~log[i].accepted
                /\ log[j].published = NoDatetime
                /\ \A k \in (i + 1)..(j - 1) : log[k].link # log[i].link )
              => log[j].accepted

\* two entries with the same link were read, the first with a fresh timestamp and
\* accepted, the second without a timestamp and dropped
C6_Witness ==
    /\ Len(log) >= 2
    /\ FirstSeen(1)
    /\ log[1].published # NoDatetime
    /\ log[1].accepted
    /\ log[2].title # <<>>
    /\ log[2].link = log[1].link
    /\ log[2].published = NoDatetime
    /\ ~log[2].accepted

\* C4 as claimed: libre_translate returns a string and raises nothing, and when
\* every endpoint was posted to and failed, for every chunk, the string returned is
\* the input
C4_AsClaimed ==
    tr_pc = "done" =>
        /\ ~tr_raised
        /\ tr_ret # None
        /\ (all_failed /\ tried # <<>>) => tr_ret = text

\* C7 as claimed: at most PHOTO_ITEMS pages are requested for an image, and once
\* the digest message is sent nothing raised leaves main
C7_AsClaimed ==
    /\ Cardinality({ i \in 1..Len(calls) : calls[i].kind = "scrape" }) <= PHOTO_ITEMS
    /\ (\E i \in 1..Len(calls) :
            /\ calls[i].kind = "sendMessage"
            /\ calls[i].what = "digest"
            /\ ~MessageRaises(calls[i].r))
       => raised = ""

\* C8: when fetch_news returns no item, the only request main sends is one
\* sendMessage with the placeholder, and it has sent it when it ends (unless a
\* setting is missing)
C8_PlaceholderOnly ==
    items = <<>> =>
        /\ Len(calls) <= 1
        /\ \A i \in 1..Len(calls) :
              calls[i].kind = "sendMessage" /\ calls[i].what = "placeholder"
        /\ (m_pc = "done" /\ raised # "RuntimeError") => Len(calls) = 1

\* main has ended, without an exception, on an empty list of items
C8_Witness ==
    /\ m_pc = "done"
    /\ items = <<>>
    /\ raised = ""
    /\ Len(calls) = 1

\* C9: a page is requested for an image, and a photo sent, only after the digest
\* message was sent and answered with a status below 400; a digest message answered
\* with a status of 400 or more is the last request of the run, which ends raising
C9_DigestFailureAborts ==
    /\ \A i \in 1..Len(calls) :
          calls[i].kind \in {"scrape", "sendPhoto"} =>
              \E j \in 1..(i - 1) :
                  /\ calls[j].kind = "sendMessage"
                  /\ calls[j].what = "digest"
                  /\ ~calls[j].r.exception
                  /\ calls[j].r.status < 400
    /\ \A j \in 1..Len(calls) :
          ( /\ calls[j].kind = "sendMessage"
            /\ calls[j].what = "digest"
            /\ ~calls[j].r.exception
            /\ calls[j].r.status >= 400 )
          => (j = Len(calls) /\ m_pc = "done" /\ raised # "")

\* the digest of three items was sent and answered with status 500
C9_Witness ==
    /\ m_pc = "done"
    /\ Len(items) = 3
    /\ raised # ""
    /\ calls # <<>>
    /\ calls[Len(calls)].kind = "sendMessage"
    /\ calls[Len(calls)].what = "digest"
    /\ calls[Len(calls)].r = [exception |-> FALSE, status |-> 500]

\* the endpoints were posted to in the order of the list, one after the other
TriedInOrder ==
    /\ Len(tried) <= Len(LIBRETRANSLATE_URLS)
    /\ \A i \in 1..Len(tried) : tried[i].url = LIBRETRANSLATE_URLS[i]
    /\ tr_pc = "post" => url = Len(tried) + 1

\* the loop over the endpoints has ended for a chunk
ChunkDone == tr_pc \in {"chunk", "done"} /\ tried # <<>>

\* C10 as claimed: the endpoints are tried in order, and none is posted to after
\* one that answered with a parsed response, its translatedText empty or not; the
\* loop goes on after a retry status or an exception
C10_AsClaimed ==
    /\ TriedInOrder
    /\ \A i \in 1..(Len(tried) - 1) : tried[i].outcome \notin {"empty", "text"}
    /\ ChunkDone =>
          \/ tried[Len(tried)].outcome \in {"empty", "text"}
          \/ Len(tried) = Len(LIBRETRANSLATE_URLS)

\* C10 amended: the endpoints are tried in order, and none is posted to after one
\* whose translatedText was not blank; the loop goes on to the next endpoint after
\* a retry status, an exception, or a response whose translatedText is blank
C10_StopsAtFirstTranslation ==
    /\ TriedInOrder
    /\ \A i \in 1..(Len(tried) - 1) : tried[i].outcome # "text"
    /\ ChunkDone =>
          \/ tried[Len(tried)].outcome = "text"
          \/ Len(tried) = Len(LIBRETRANSLATE_URLS)

\* a chunk was done after a retry status and a translation, an endpoint left untried
C10_Witness ==
    /\ ChunkDone
    /\ Len(LIBRETRANSLATE_URLS) = 3
    /\ Len(tried) = 2
    /\ tried[1].outcome = "retry"
    /\ tried[2].outcome = "text"
    /\ out_chunks # <<>>
    /\ out_chunks[Len(out_chunks)] = Word("z")

====
